---- MODULE Spec2Model ----
(***************************************************************************)
(* A model of the librum / bzipper binary codec: the read cursor DStream,  *)
(* the Encode implementations of encode/mod.rs writing into an OStream,    *)
(* and the decode function that the derive macro generates for an enum.    *)
(***************************************************************************)
EXTENDS Integers, Sequences, FiniteSets, TLC

VARIABLES
    dstream,    \* the read cursor: [data, len]               (DStream)
    ostream,    \* the write cursor: [buf, cap]               (OStream)
    derived,    \* the enum the derive macro was applied to:  [variants, repr]
    call,       \* the call made last: its name, its arguments, the state before
    ret,        \* what the call made last returned
    taken       \* the bytes the take calls have returned so far, in order

vars == <<dstream, ostream, derived, call, ret, taken>>

(***************************************************************************)
(* Bounds of the model.                                                    *)
(***************************************************************************)
\* longest buffer a read cursor is constructed over
MaxBuf == 3
\* largest byte count asked of take
MaxTake == 4

\* the byte values buffers are filled with
ByteSample == {0, 1, 255}

RECURSIVE SeqsUpTo(_, _)
\* all sequences over S of length at most n
SeqsUpTo(S, n) ==
    IF n = 0 THEN {<<>>}
    ELSE LET shorter == SeqsUpTo(S, n - 1)
         IN  shorter \cup {Append(s, x) : s \in {t \in shorter : Len(t) = n - 1}, x \in S}

\* results of the Rust code: Ok(v), Err(e), or a panic that aborts the call
Ok(v)  == [kind |-> "Ok", val |-> v]
Err(e) == [kind |-> "Err", err |-> e]
Panic  == [kind |-> "Panic"]

NoCall == [op |-> "none"]
NoEnum == [variants |-> <<>>, repr |-> "isize"]
NoDStream == [data |-> <<>>, len |-> 0]
NoOStream == [buf |-> <<>>, cap |-> 0]

(***************************************************************************)
(* DStream: src/src/deserialise/d_stream/mod.rs                            *)
(***************************************************************************)
\* DStream::new: borrows the buffer, len is the buffer's length
DStream_new(buf) == [data |-> buf, len |-> Len(buf)]

\* the error take builds when too few bytes are left
EndOfDStream(len, ok_len) == [kind |-> "EndOfDStream", len |-> len, ok_len |-> ok_len]

\* a take that forgets the length check and subtracts all the same
DStream_take_unchecked(self, len) ==
    LET start == Len(self.data) - self.len
        stop  == start + len
    IN  [self   |-> [self EXCEPT !.len = self.len - len],
         result |-> Ok([i \in 1..len |-> IF start + i <= Len(self.data)
                                         THEN self.data[start + i] ELSE 0])]

\* a take that returns the slice one byte too far into the buffer
DStream_take_shifted(self, len) ==
    IF self.len < len
    THEN [self |-> self, result |-> Err(EndOfDStream(self.len, len))]
    ELSE LET start == Len(self.data) - self.len + 1
         IN  [self   |-> [self EXCEPT !.len = self.len - len],
              result |-> Ok([i \in 1..len |-> IF start + i <= Len(self.data)
                                              THEN self.data[start + i] ELSE 0])]

\* a take that consumes the bytes it could hand out before it fails
DStream_take_draining(self, len) ==
    IF self.len < len
    THEN [self |-> [self EXCEPT !.len = 0], result |-> Err(EndOfDStream(self.len, len))]
    ELSE LET start == Len(self.data) - self.len
             stop  == start + len
         IN  [self   |-> [self EXCEPT !.len = self.len - len],
              result |-> Ok(SubSeq(self.data, start + 1, stop))]

\* a take that hands out the bytes and forgets to count them as used
DStream_take_peeking(self, len) ==
    IF self.len < len
    THEN [self |-> self, result |-> Err(EndOfDStream(self.len, len))]
    ELSE LET start == Len(self.data) - self.len
             stop  == start + len
         IN  [self |-> self, result |-> Ok(SubSeq(self.data, start + 1, stop))]

\* DStream::take: the new cursor and the result
DStream_take(self, len) ==
    IF self.len < len
    THEN [self |-> self, result |-> Err(EndOfDStream(self.len, len))]
    ELSE LET start == Len(self.data) - self.len
             stop  == start + len
         IN  [self   |-> [self EXCEPT !.len = self.len - len],
              result |-> Ok(SubSeq(self.data, start + 1, stop))]

\* a caller takes n bytes from the cursor
Take ==
    \E n \in 0..MaxTake :
        LET r == DStream_take(dstream, n)
        IN  /\ dstream' = r.self
            /\ call' = [op |-> "take", n |-> n, pre |-> dstream]
            /\ ret' = r.result
            /\ taken' = IF r.result.kind = "Ok" THEN taken \o r.result.val ELSE taken
            /\ UNCHANGED <<ostream, derived>>

\* a cursor constructed over any buffer of the bounded set
InitStream ==
    /\ dstream \in {DStream_new(b) : b \in SeqsUpTo(ByteSample, MaxBuf)}
    /\ ostream = NoOStream
    /\ derived = NoEnum
    /\ call = [op |-> "new", pre |-> dstream]
    /\ ret = Ok(<<>>)
    /\ taken = <<>>

NextStream == Take

SpecStream == InitStream /\ [][NextStream]_vars

(***************************************************************************)
(* Claims about the read cursor.                                           *)
(***************************************************************************)
\* C1: with r bytes remaining of a buffer of length L, take(n) with n <= r
\* succeeds, returns exactly the n bytes at offsets [L-r, L-r+n) and leaves
\* exactly r-n bytes remaining.
C1_TakeReturnsNextBytes ==
    (call.op = "take" /\ call.n <= call.pre.len) =>
        LET L == Len(call.pre.data)
            r == call.pre.len
            n == call.n
        IN  /\ ret.kind = "Ok"
            /\ Len(ret.val) = n
            /\ \A i \in 1..n : ret.val[i] = call.pre.data[L - r + i]
            /\ dstream.len = r - n
            /\ dstream.data = call.pre.data

\* C1 witness: a take from the middle of a buffer that leaves bytes behind
C1_Witness ==
    /\ call.op = "take"
    /\ call.n = 1
    /\ call.pre.len = 2
    /\ Len(call.pre.data) = 3
    /\ ret.kind = "Ok"
    /\ dstream.len = 1

\* C2: with r bytes remaining, take(n) with n > r returns the end-of-input
\* error carrying the requested count n and the available count r and leaves
\* the cursor unchanged, so a later take(m) with m <= r still succeeds.
C2_TakeFailsWithCounts ==
    /\ [] ((call.op = "take" /\ call.n > call.pre.len) =>
            /\ ret.kind = "Err"
            /\ ret.err.kind = "EndOfDStream"
            /\ ret.err.ok_len = call.n
            /\ ret.err.len = call.pre.len
            /\ dstream = call.pre)
    /\ [][(/\ call.op = "take"
           /\ call.n > call.pre.len
           /\ call'.op = "take"
           /\ call'.n <= call.pre.len)
          => (ret'.kind = "Ok" /\ Len(ret'.val) = call'.n)]_vars

\* C2 witness: two bytes (a u16) are asked of an empty buffer
C2_Witness ==
    /\ call.op = "take"
    /\ call.n = 2
    /\ call.pre.len = 0
    /\ ret.kind = "Err"
    /\ ret.err.ok_len = 2
    /\ ret.err.len = 0

\* C3: the remaining-length counter stays within 0..total length, equals the
\* total length right after construction, and no take ever increases it.
C3_RemainingWithinBuffer ==
    /\ dstream.len = Len(dstream.data)
    /\ [] (0 <= dstream.len /\ dstream.len <= Len(dstream.data))
    /\ [][dstream'.len <= dstream.len]_vars

\* C3 witness: after a take that failed, following one that succeeded
C3_Witness ==
    /\ call.op = "take"
    /\ ret.kind = "Err"
    /\ 0 < dstream.len
    /\ dstream.len < Len(dstream.data)

\* C17: across any sequence of take calls on one cursor the slices returned
\* by the successful calls are consecutive, non-overlapping segments of the
\* buffer in increasing offset order starting at offset 0: each begins where
\* the previous successful one ended, no byte is returned twice, and the
\* lengths of all returned slices plus the remaining count sum to the buffer
\* length.
C17_TakesAreConsecutive ==
    /\ [] (/\ Len(taken) + dstream.len = Len(dstream.data)
           /\ \A i \in 1..Len(taken) : taken[i] = dstream.data[i])
    /\ [][(call'.op = "take" /\ ret'.kind = "Ok") =>
            /\ Len(ret'.val) = call'.n
            /\ \A i \in 1..call'.n : ret'.val[i] = dstream.data[Len(taken) + i]
            /\ Len(taken') = Len(taken) + call'.n
            /\ dstream'.data = dstream.data]_vars
    /\ [][(call'.op = "take" /\ ret'.kind = "Err") => taken' = taken]_vars

\* C17 witness: a third slice was returned after two others and a failed take
C17_Witness ==
    /\ call.op = "take"
    /\ ret.kind = "Ok"
    /\ call.n = 1
    /\ Len(taken) = 3
    /\ dstream.len = 0
    /\ taken = <<0, 1, 255>>

(***************************************************************************)
(* OStream, the write cursor.  Its file is not among the sources: it is    *)
(* modelled from the specification (a caller-owned buffer of fixed         *)
(* capacity, one primitive that commits N raw bytes, a write beyond the    *)
(* capacity aborts the operation).                                         *)
(***************************************************************************)
\* largest capacity of a caller's buffer
MaxCap == 8
\* encode is called while the write position is at most this
MaxPos == 2
\* longest slice, vector, string, set or map that is encoded
MaxLen == 2

Unit == <<>>

\* OStream::new over a caller's buffer of cap bytes: nothing written yet
OStream_new(cap) == [buf |-> <<>>, cap |-> cap]

\* OStream::write: commits the bytes, or panics when they do not fit
OStream_write(stream, bytes) ==
    IF Len(stream.buf) + Len(bytes) > stream.cap
    THEN [stream |-> stream, result |-> Panic]
    ELSE [stream |-> [stream EXCEPT !.buf = stream.buf \o bytes], result |-> Ok(Unit)]

(***************************************************************************)
(* Encode: src/librum/src/encode/mod.rs                                    *)
(***************************************************************************)
\* a value of a primitive type
Val(ty, v) == [ty |-> ty, v |-> v]

\* size_of the fixed-width integer types of the model, in bytes
Width(ty) ==
    CASE ty \in {"u8", "i8"}   -> 1
      [] ty \in {"u16", "i16"} -> 2
      [] ty \in {"u32", "i32"} -> 4
      [] ty \in {"u64", "i64"} -> 8

RECURSIVE Shr8(_, _)
\* v shifted right (arithmetically) by k bytes
Shr8(v, k) == IF k = 0 THEN v ELSE Shr8(v \div 256, k - 1)

\* to_le_bytes, the bug of writing the least significant byte first
ToLeBytes(v, w) == [i \in 1..w |-> Shr8(v, i - 1) % 256]

\* to_be_bytes: the two's complement form of v in w bytes, most significant first
ToBeBytes(v, w) == [i \in 1..w |-> Shr8(v, w - i) % 256]

\* u16::try_from(usize) succeeds
FitsU16(v) == 0 <= v /\ v <= 65535

\* i16::try_from(isize) succeeds
FitsI16(v) == -32768 <= v /\ v <= 32767

UsizeEncodeError(v) == [kind |-> "UsizeEncodeError", value |-> v]
IsizeEncodeError(v) == [kind |-> "IsizeEncodeError", value |-> v]
CollectionEncodeError_Length(e) == [kind |-> "Length", error |-> e]
CollectionEncodeError_Item(e) == [kind |-> "Item", error |-> e]
ItemEncodeError(index, error) == [kind |-> "ItemEncodeError", index |-> index, error |-> error]

BufferTooSmall(len) == [kind |-> "BufferTooSmall", len |-> len]

\* a numeric encoder that reports a full buffer as an error value
Encode_numeric_checked(self, stream) ==
    IF Len(stream.buf) + Width(self.ty) > stream.cap
    THEN [stream |-> stream, result |-> Err(BufferTooSmall(Width(self.ty)))]
    ELSE OStream_write(stream, ToBeBytes(self.v, Width(self.ty)))

\* impl_numeric!: stream.write(&self.to_be_bytes()); Ok(())
Encode_numeric(self, stream) ==
    OStream_write(stream, ToBeBytes(self.v, Width(self.ty)))

\* a bool encoder that writes 0xFF for true
Encode_bool_ff(self, stream) ==
    Encode_numeric(Val("u8", IF self.v THEN 255 ELSE 0), stream)

\* impl Encode for bool: u8::from(*self).encode(stream)
Encode_bool(self, stream) ==
    Encode_numeric(Val("u8", IF self.v THEN 1 ELSE 0), stream)

\* a usize encoder that casts with `as u16` and so truncates silently
Encode_usize_truncating(self, stream) ==
    Encode_numeric(Val("u16", self.v % 65536), stream)

\* impl Encode for usize: u16::try_from, then the u16 is encoded
Encode_usize(self, stream) ==
    IF FitsU16(self.v)
    THEN Encode_numeric(Val("u16", self.v), stream)
    ELSE [stream |-> stream, result |-> Err(UsizeEncodeError(self.v))]

\* an isize encoder that writes the truncated bytes before it reports the overflow
Encode_isize_torn(self, stream) ==
    IF FitsI16(self.v)
    THEN Encode_numeric(Val("i16", self.v), stream)
    ELSE [stream |-> Encode_numeric(Val("i16", self.v), stream).stream,
          result |-> Err(IsizeEncodeError(self.v))]

\* impl Encode for isize: i16::try_from, then the i16 is encoded
Encode_isize(self, stream) ==
    IF FitsI16(self.v)
    THEN Encode_numeric(Val("i16", self.v), stream)
    ELSE [stream |-> stream, result |-> Err(IsizeEncodeError(self.v))]

RECURSIVE Encode(_, _)
RECURSIVE EncodeItems(_, _, _)
RECURSIVE EncodeFields(_, _, _)

RECURSIVE EncodeItemsOneBased(_, _, _)
\* an element loop that counts the elements from one in its errors
EncodeItemsOneBased(items, i, stream) ==
    IF i >= Len(items)
    THEN [stream |-> stream, result |-> Ok(Unit)]
    ELSE LET r == Encode(items[i + 1], stream)
         IN  CASE r.result.kind = "Ok"    -> EncodeItemsOneBased(items, i + 1, r.stream)
               [] r.result.kind = "Err"   ->
                    [stream |-> r.stream,
                     result |-> Err(CollectionEncodeError_Item(ItemEncodeError(i + 1, r.result.err)))]
               [] r.result.kind = "Panic" -> r

\* for (i, v) in self.iter().enumerate(): the first failure is wrapped with its index
EncodeItems(items, i, stream) ==
    IF i >= Len(items)
    THEN [stream |-> stream, result |-> Ok(Unit)]
    ELSE LET r == Encode(items[i + 1], stream)
         IN  CASE r.result.kind = "Ok"    -> EncodeItems(items, i + 1, r.stream)
               [] r.result.kind = "Err"   ->
                    [stream |-> r.stream,
                     result |-> Err(CollectionEncodeError_Item(ItemEncodeError(i, r.result.err)))]
               [] r.result.kind = "Panic" -> r

\* value.encode(stream)?; for each value in turn
EncodeFields(items, i, stream) ==
    IF i >= Len(items)
    THEN [stream |-> stream, result |-> Ok(Unit)]
    ELSE LET r == Encode(items[i + 1], stream)
         IN  IF r.result.kind = "Ok" THEN EncodeFields(items, i + 1, r.stream) ELSE r

\* a slice encoder that forgets the length prefix
Encode_slice_unprefixed(self, stream) ==
    EncodeItems(self.items, 0, stream)

\* impl Encode for [T]: the length as usize, then each element
Encode_slice(self, stream) ==
    LET l == Encode_usize(Val("usize", Len(self.items)), stream)
    IN  CASE l.result.kind = "Ok"    -> EncodeItems(self.items, 0, l.stream)
          [] l.result.kind = "Err"   ->
               [stream |-> l.stream, result |-> Err(CollectionEncodeError_Length(l.result.err))]
          [] l.result.kind = "Panic" -> l

\* impl Encode for Vec<T>: self.as_slice().encode(stream)
Encode_Vec(self, stream) ==
    Encode_slice([ty |-> "slice", items |-> self.items], stream)

\* impl Encode for str: self.as_bytes().encode(stream)
Encode_str(self, stream) ==
    Encode_slice([ty |-> "slice",
                  items |-> [i \in 1..Len(self.bytes) |-> Val("u8", self.bytes[i])]], stream)

\* impl Encode for String: self.as_str().encode(stream)
Encode_String(self, stream) ==
    Encode_str([ty |-> "str", bytes |-> self.bytes], stream)

\* impl Encode for HashSet: each key in the set's iteration order
Encode_HashSet(self, stream) ==
    EncodeFields(self.iter, 0, stream)

\* the keys and values of a map's entries, flattened in iteration order
KeyThenValue(iter) ==
    [j \in 1..(2 * Len(iter)) |->
        IF j % 2 = 1 THEN iter[(j + 1) \div 2].key ELSE iter[j \div 2].value]

\* impl Encode for HashMap: key then value of each entry in iteration order
Encode_HashMap(self, stream) ==
    EncodeFields(KeyThenValue(self.iter), 0, stream)

\* a tuple encoder that writes the fields last to first
Encode_tuple_reversed(self, stream) ==
    EncodeFields([i \in 1..Len(self.items) |-> self.items[Len(self.items) + 1 - i]], 0, stream)

\* impl_tuple!: each member in declaration order, the first error returned as it is
Encode_tuple(self, stream) ==
    EncodeFields(self.items, 0, stream)

\* impl Encode for [T; N]: each element in turn, no length
Encode_array(self, stream) ==
    EncodeItems(self.items, 0, stream)

\* an Option encoder that encodes the payload before the sign
Encode_Option_payload_first(self, stream) ==
    IF self.items = <<>>
    THEN Encode_bool(Val("bool", FALSE), stream)
    ELSE LET v == Encode(self.items[1], stream)
         IN  IF v.result.kind # "Ok" THEN v ELSE Encode_bool(Val("bool", TRUE), v.stream)

\* impl Encode for Option<T>: the sign (false for None, true for Some), then
\* the contained value of a Some; items holds the contained value, if any
Encode_Option(self, stream) ==
    IF self.items = <<>>
    THEN Encode_bool(Val("bool", FALSE), stream)
    ELSE LET s == Encode_bool(Val("bool", TRUE), stream)
         IN  IF s.result.kind # "Ok" THEN s ELSE Encode(self.items[1], s.stream)

BorrowError == [kind |-> "BorrowError"]
RefCellEncodeError_Borrow(e) == [kind |-> "Borrow", error |-> e]
RefCellEncodeError_Value(e) == [kind |-> "Value", error |-> e]

\* RefCell::try_borrow: fails while the cell is mutably borrowed
TryBorrow(self) == IF self.borrowed THEN Err(BorrowError) ELSE Ok(self.items[1])

\* a RefCell encoder that reads the value whatever the borrow state
Encode_RefCell_unchecked(self, stream) ==
    LET r == Encode(self.items[1], stream)
    IN  IF r.result.kind = "Err"
        THEN [stream |-> r.stream, result |-> Err(RefCellEncodeError_Value(r.result.err))]
        ELSE r

\* impl Encode for RefCell<T>: try_borrow, then the wrapped value
Encode_RefCell(self, stream) ==
    LET value == TryBorrow(self)
    IN  IF value.kind = "Err"
        THEN [stream |-> stream, result |-> Err(RefCellEncodeError_Borrow(value.err))]
        ELSE LET r == Encode(value.val, stream)
             IN  IF r.result.kind = "Err"
                 THEN [stream |-> r.stream,
                       result |-> Err(RefCellEncodeError_Value(r.result.err))]
                 ELSE r

\* Duration::as_secs of the time between the epoch and the time point, which
\* is sec whole seconds and nsec nanoseconds (0 <= nsec < 10^9) after the epoch
SecsFromEpoch(self) ==
    IF self.sec >= 0 THEN self.sec
    ELSE IF self.nsec = 0 THEN 0 - self.sec ELSE 0 - self.sec - 1

\* impl Encode for SystemTime: the seconds since the epoch, negated for a time
\* point before it, as an i64
Encode_SystemTime(self, stream) ==
    LET time == IF self.sec >= 0 THEN SecsFromEpoch(self) ELSE 0 - SecsFromEpoch(self)
    IN  Encode_numeric(Val("i64", time), stream)

\* <T as Encode>::encode, by the type of the value
Encode(self, stream) ==
    CASE self.ty \in {"u8", "i8", "u16", "i16", "u32", "i32", "u64", "i64"} ->
            Encode_numeric(self, stream)
      [] self.ty = "bool"    -> Encode_bool(self, stream)
      [] self.ty = "usize"   -> Encode_usize(self, stream)
      [] self.ty = "isize"   -> Encode_isize(self, stream)
      [] self.ty = "slice"   -> Encode_slice(self, stream)
      [] self.ty = "Vec"     -> Encode_Vec(self, stream)
      [] self.ty = "str"     -> Encode_str(self, stream)
      [] self.ty = "String"  -> Encode_String(self, stream)
      [] self.ty = "HashSet" -> Encode_HashSet(self, stream)
      [] self.ty = "HashMap" -> Encode_HashMap(self, stream)
      [] self.ty = "tuple"   -> Encode_tuple(self, stream)
      [] self.ty = "array"   -> Encode_array(self, stream)
      [] self.ty = "Option"  -> Encode_Option(self, stream)
      [] self.ty = "RefCell" -> Encode_RefCell(self, stream)
      [] self.ty = "SystemTime" -> Encode_SystemTime(self, stream)

(***************************************************************************)
(* The values the model encodes.                                           *)
(***************************************************************************)
UsizeSample == {0, 1, 300, 65535, 65536, 70000}
IsizeSample == {-32769, -32768, -1, 0, 300, 32767, 32768}

NumericValues ==
    {Val("u8", 0), Val("u8", 255), Val("i8", -1), Val("u16", 1), Val("u16", 300),
     Val("i16", -2), Val("u32", 65537), Val("i64", -1)}
BoolValues == {Val("bool", FALSE), Val("bool", TRUE)}
UsizeValues == {Val("usize", v) : v \in UsizeSample}
IsizeValues == {Val("isize", v) : v \in IsizeSample}

\* the element types of the collections, each with the values of its elements
ElemU8 == {Val("u8", 0), Val("u8", 255)}
ElemU16 == {Val("u16", 1), Val("u16", 300)}
ElemUsize == {Val("usize", 2), Val("usize", 70000)}
ElemSets == {ElemU8, ElemU16, ElemUsize}

\* the bytes of the text strings
TextBytes == {65, 195}

SliceValues ==
    UNION {{[ty |-> "slice", items |-> s] : s \in SeqsUpTo(E, MaxLen)} : E \in ElemSets}
VecValues ==
    UNION {{[ty |-> "Vec", items |-> s] : s \in SeqsUpTo(E, MaxLen)} : E \in ElemSets}
StrValues == {[ty |-> "str", bytes |-> s] : s \in SeqsUpTo(TextBytes, MaxLen)}
StringValues == {[ty |-> "String", bytes |-> s] : s \in SeqsUpTo(TextBytes, MaxLen)}

\* no element occurs twice in s
Distinct(s) == \A i, j \in 1..Len(s) : i # j => s[i] # s[j]

\* a set, with the order its iterator yields the keys in (any order is possible)
HashSetValues ==
    UNION {{[ty |-> "HashSet", iter |-> s] : s \in {q \in SeqsUpTo(E, MaxLen) : Distinct(q)}}
           : E \in ElemSets}

\* the entries of the maps: key and value types share one error type
EntriesInfallible == {[key |-> k, value |-> v] : k \in ElemU8, v \in ElemU16}
EntriesUsize == {[key |-> k, value |-> v] : k \in ElemUsize, v \in ElemUsize}

\* a map, with the order its iterator yields the entries in; keys are distinct
HashMapValues ==
    UNION {{[ty |-> "HashMap", iter |-> s]
            : s \in {q \in SeqsUpTo(E, MaxLen) : Distinct([i \in 1..Len(q) |-> q[i].key])}}
           : E \in {EntriesInfallible, EntriesUsize}}

TupleValues ==
    {[ty |-> "tuple", items |-> <<a, b>>] : a \in ElemU16, b \in BoolValues}
    \cup {[ty |-> "tuple", items |-> <<a, b, c>>] : a \in ElemU8, b \in ElemU16, c \in BoolValues}
    \cup {[ty |-> "tuple", items |-> <<a, b>>] : a \in ElemUsize, b \in ElemUsize}

ArrayValues ==
    UNION {{[ty |-> "array", items |-> s] : s \in SeqsUpTo(E, MaxLen)} : E \in ElemSets}

\* None, and Some of a u16 or of a usize
OptionValues ==
    {[ty |-> "Option", items |-> <<>>]}
    \cup {[ty |-> "Option", items |-> <<x>>] : x \in ElemU16 \cup ElemUsize}

\* Option<usize>, the element type of the nested collections
ElemOptionUsize ==
    {[ty |-> "Option", items |-> <<>>]} \cup {[ty |-> "Option", items |-> <<x>>] : x \in ElemUsize}

\* slices of optional sizes
NestedValues == {[ty |-> "slice", items |-> s] : s \in SeqsUpTo(ElemOptionUsize, MaxLen)}

\* a cell holding a u16 or a usize, mutably borrowed elsewhere or not
RefCellValues ==
    {[ty |-> "RefCell", borrowed |-> b, items |-> <<x>>]
     : b \in BOOLEAN, x \in ElemU16 \cup ElemUsize}

\* time points around the epoch
SystemTimeValues ==
    {[ty |-> "SystemTime", sec |-> s, nsec |-> n]
     : s \in {-2, -1, 0, 1}, n \in {0, 400000000, 900000000}}

(***************************************************************************)
(* The encode calls a program makes on one write cursor.                   *)
(***************************************************************************)
\* the bookkeeping of an encode call on self that came back with r
Called(self, r) ==
    /\ ostream' = r.stream
    /\ call' = [op |-> "encode", self |-> self, pre |-> ostream]
    /\ ret' = r.result
    /\ UNCHANGED <<dstream, derived, taken>>

CanCall == Len(ostream.buf) <= MaxPos /\ ret.kind # "Panic"

EncodeNumeric == CanCall /\ \E v \in NumericValues : Called(v, Encode_numeric(v, ostream))
EncodeBool == CanCall /\ \E v \in BoolValues : Called(v, Encode_bool(v, ostream))
EncodeUsize == CanCall /\ \E v \in UsizeValues : Called(v, Encode_usize(v, ostream))
EncodeIsize == CanCall /\ \E v \in IsizeValues : Called(v, Encode_isize(v, ostream))
EncodeSlice ==
    CanCall /\ \E v \in SliceValues \cup NestedValues : Called(v, Encode_slice(v, ostream))
EncodeVec == CanCall /\ \E v \in VecValues : Called(v, Encode_Vec(v, ostream))
EncodeStr == CanCall /\ \E v \in StrValues : Called(v, Encode_str(v, ostream))
EncodeString == CanCall /\ \E v \in StringValues : Called(v, Encode_String(v, ostream))
EncodeHashSet == CanCall /\ \E v \in HashSetValues : Called(v, Encode_HashSet(v, ostream))
EncodeHashMap == CanCall /\ \E v \in HashMapValues : Called(v, Encode_HashMap(v, ostream))
EncodeTuple == CanCall /\ \E v \in TupleValues : Called(v, Encode_tuple(v, ostream))
EncodeArray == CanCall /\ \E v \in ArrayValues : Called(v, Encode_array(v, ostream))
EncodeOption == CanCall /\ \E v \in OptionValues : Called(v, Encode_Option(v, ostream))
EncodeRefCell == CanCall /\ \E v \in RefCellValues : Called(v, Encode_RefCell(v, ostream))
EncodeSystemTime ==
    CanCall /\ \E v \in SystemTimeValues : Called(v, Encode_SystemTime(v, ostream))

\* a write cursor constructed over a caller's buffer of any capacity up to MaxCap
InitEncode ==
    /\ ostream \in {OStream_new(c) : c \in 0..MaxCap}
    /\ dstream = NoDStream
    /\ derived = NoEnum
    /\ call = [op |-> "new"]
    /\ ret = Ok(Unit)
    /\ taken = <<>>

NextEncode ==
    \/ EncodeNumeric
    \/ EncodeBool
    \/ EncodeUsize
    \/ EncodeIsize
    \/ EncodeSlice
    \/ EncodeVec
    \/ EncodeStr
    \/ EncodeString
    \/ EncodeHashSet
    \/ EncodeHashMap
    \/ EncodeTuple
    \/ EncodeArray
    \/ EncodeOption
    \/ EncodeRefCell
    \/ EncodeSystemTime

SpecEncode == InitEncode /\ [][NextEncode]_vars

(***************************************************************************)
(* Claims about encode.                                                    *)
(***************************************************************************)
\* the bytes the call made last appended to the stream
Written == SubSeq(ostream.buf, Len(call.pre.buf) + 1, Len(ostream.buf))

\* the call made last left the bytes written before it where they were
KeptPrefix ==
    /\ Len(ostream.buf) >= Len(call.pre.buf)
    /\ SubSeq(ostream.buf, 1, Len(call.pre.buf)) = call.pre.buf
    /\ ostream.cap = call.pre.cap

\* the two bytes of the 16-bit form of v, most significant first
Be16(v) == LET u == IF v < 0 THEN v + 65536 ELSE v IN <<u \div 256, u % 256>>

\* the wire form of an element that is a fixed-width integer of one or two
\* bytes, a boolean, or a size that fits sixteen bits
WireOf(e) ==
    CASE e.ty \in {"u8", "i8"}                  -> <<IF e.v < 0 THEN e.v + 256 ELSE e.v>>
      [] e.ty \in {"u16", "i16", "usize", "isize"} -> Be16(e.v)
      [] e.ty = "bool"                          -> <<IF e.v THEN 1 ELSE 0>>
      [] e.ty = "Option" ->
            IF e.items = <<>> THEN <<0>>
            ELSE <<1>> \o Be16(e.items[1].v)

RECURSIVE WireOfAll(_)
\* the wire forms of the elements of s, one after the other
WireOfAll(s) == IF s = <<>> THEN <<>> ELSE WireOf(Head(s)) \o WireOfAll(Tail(s))

\* the element can be encoded
Encodable(e) ==
    CASE e.ty = "usize" -> 0 <= e.v /\ e.v <= 65535
      [] e.ty = "isize" -> -32768 <= e.v /\ e.v <= 32767
      [] e.ty = "Option" ->
            \/ e.items = <<>>
            \/ e.items[1].ty # "usize"
            \/ (0 <= e.items[1].v /\ e.items[1].v <= 65535)
      [] OTHER          -> TRUE

\* C4: a usize outside [0, 65535] (an isize outside [-32768, 32767]) makes
\* encode return the narrowing-overflow error carrying the original value with
\* no byte written; an in-range value is written as exactly the two big-endian
\* bytes of its 16-bit form (the call aborts when they do not fit the buffer).
C4_SizeNeverTruncated ==
    (call.op = "encode" /\ call.self.ty \in {"usize", "isize"}) =>
        LET v == call.self.v
            inRange == IF call.self.ty = "usize" THEN 0 <= v /\ v <= 65535
                                                 ELSE -32768 <= v /\ v <= 32767
            fits == Len(call.pre.buf) + 2 <= call.pre.cap
        IN  /\ ~inRange =>
                /\ ret.kind = "Err"
                /\ ret.err.kind = (IF call.self.ty = "usize" THEN "UsizeEncodeError"
                                                              ELSE "IsizeEncodeError")
                /\ ret.err.value = v
                /\ ostream = call.pre
            /\ (inRange /\ fits) =>
                /\ ret.kind = "Ok"
                /\ KeptPrefix
                /\ Written = Be16(v)
            /\ (inRange /\ ~fits) => (ret.kind = "Panic" /\ ostream = call.pre)

\* C4 witness: 70000 was refused after 300 had been written as 01 2C
C4_Witness ==
    /\ call.op = "encode"
    /\ call.self.ty = "usize"
    /\ call.self.v = 70000
    /\ ret.kind = "Err"
    /\ ostream.buf = <<1, 44>>

\* the elements of the sequence encoded last
ItemsOfCall ==
    IF call.self.ty \in {"str", "String"}
    THEN [i \in 1..Len(call.self.bytes) |-> Val("u8", call.self.bytes[i])]
    ELSE call.self.items

\* C5: encoding a slice, vector or text string of k encodable elements writes
\* the 16-bit big-endian prefix k, then the encodings of elements 0..k-1 in
\* index order, and nothing else.
C5_LengthPrefixThenElements ==
    (/\ call.op = "encode"
     /\ call.self.ty \in {"slice", "Vec", "str", "String"}
     /\ \A i \in 1..Len(ItemsOfCall) : Encodable(ItemsOfCall[i])
     /\ ret.kind # "Panic") =>
        /\ ret.kind = "Ok"
        /\ KeptPrefix
        /\ Written = Be16(Len(ItemsOfCall)) \o WireOfAll(ItemsOfCall)

\* C5 witness: the vector [300, 1] of u16 was written as 00 02 01 2C 00 01
C5_Witness ==
    /\ call.op = "encode"
    /\ call.self.ty = "Vec"
    /\ call.self.items = <<Val("u16", 300), Val("u16", 1)>>
    /\ ret.kind = "Ok"
    /\ Written = <<0, 2, 1, 44, 0, 1>>

\* the keys, or the keys and values, of the set or map encoded last
EntriesOfCall ==
    IF call.self.ty = "HashMap" THEN KeyThenValue(call.self.iter) ELSE call.self.iter

\* C6: encoding a set or a map with k entries writes the 16-bit length prefix
\* k before the sequential element (key-then-value) encodings.
C6_SetAndMapLengthPrefix ==
    (/\ call.op = "encode"
     /\ call.self.ty \in {"HashSet", "HashMap"}
     /\ ret.kind = "Ok") =>
        /\ Len(Written) >= 2
        /\ SubSeq(Written, 1, 2) = Be16(Len(call.self.iter))
        /\ SubSeq(Written, 3, Len(Written)) = WireOfAll(EntriesOfCall)

\* C10: a tuple (a struct) of fixed-width integers and booleans is encoded as
\* the concatenation of its fields' encodings in declaration order with no
\* framing, an integer as its big-endian bytes and a boolean as the byte 0 or
\* 1; (300u16, true) is encoded as exactly 01 2C 01.
C10_TupleIsFieldsInOrder ==
    (/\ call.op = "encode"
     /\ call.self.ty = "tuple"
     /\ \A i \in 1..Len(call.self.items) :
            call.self.items[i].ty \in {"u8", "i8", "u16", "i16", "bool"}
     /\ ret.kind # "Panic") =>
        /\ ret.kind = "Ok"
        /\ KeptPrefix
        /\ Written = WireOfAll(call.self.items)
        /\ (call.self.items = <<Val("u16", 300), Val("bool", TRUE)>> => Written = <<1, 44, 1>>)

\* C10 witness: (300u16, true) was encoded
C10_Witness ==
    /\ call.op = "encode"
    /\ call.self.ty = "tuple"
    /\ call.self.items = <<Val("u16", 300), Val("bool", TRUE)>>
    /\ ret.kind = "Ok"
    /\ Len(Written) = 3

(***************************************************************************)
(* Claims about the failures of encode.                                    *)
(***************************************************************************)
\* the value itself cannot be encoded: a size that does not fit sixteen bits,
\* or a cell that is mutably borrowed
LeafFails(v) ==
    CASE v.ty = "usize"   -> ~(0 <= v.v /\ v.v <= 65535)
      [] v.ty = "isize"   -> ~(-32768 <= v.v /\ v.v <= 32767)
      [] v.ty = "RefCell" -> v.borrowed
      [] OTHER            -> FALSE

\* the sub-values of a value, in the order they are encoded in
Children(v) ==
    CASE v.ty \in {"slice", "Vec", "array", "tuple", "Option", "RefCell"} -> v.items
      [] v.ty \in {"str", "String"} -> [i \in 1..Len(v.bytes) |-> Val("u8", v.bytes[i])]
      [] v.ty = "HashSet" -> v.iter
      [] v.ty = "HashMap" -> KeyThenValue(v.iter)
      [] OTHER -> <<>>

\* the bytes a value writes ahead of its sub-values (a set or a map writes
\* none: see C6)
Framing(v) ==
    CASE v.ty \in {"slice", "Vec"}  -> Be16(Len(v.items))
      [] v.ty \in {"str", "String"} -> Be16(Len(v.bytes))
      [] v.ty = "Option"            -> <<IF v.items = <<>> THEN 0 ELSE 1>>
      [] OTHER                      -> <<>>

\* the value has no sub-values
IsLeaf(v) ==
    v.ty \in {"u8", "i8", "u16", "i16", "u32", "i32", "u64", "i64", "bool", "usize", "isize"}

RECURSIVE DataFails(_)
\* the value, or a sub-value of it, cannot be encoded
DataFails(v) ==
    \/ LeafFails(v)
    \/ \E i \in 1..Len(Children(v)) : DataFails(Children(v)[i])

RECURSIVE WireUntilFailure(_)
RECURSIVE WireUntilFailureFrom(_, _)
\* the bytes of the value that precede its first sub-value that cannot be
\* encoded (all its bytes when there is none)
WireUntilFailure(v) ==
    IF LeafFails(v) THEN <<>>
    ELSE IF IsLeaf(v)
         THEN (IF v.ty \in {"u32", "i32", "u64", "i64"}
               THEN ToBeBytes(v.v, Width(v.ty)) ELSE WireOf(v))
         ELSE Framing(v) \o WireUntilFailureFrom(Children(v), 1)

\* the same of the sub-values s[i], s[i+1], ...
WireUntilFailureFrom(s, i) ==
    IF i > Len(s) THEN <<>>
    ELSE IF DataFails(s[i]) THEN WireUntilFailure(s[i])
         ELSE WireUntilFailure(s[i]) \o WireUntilFailureFrom(s, i + 1)

RECURSIVE InnermostError(_)
\* the failure at the end of the chain of wrapped errors
InnermostError(e) ==
    IF "error" \in DOMAIN e THEN InnermostError(e.error) ELSE e

\* C11: whenever an encode call returns an error, no byte of the failing
\* sub-value has been written: the write position has advanced by exactly the
\* bytes of the framing and of the sibling values completely encoded before
\* the failing sub-value, and no sibling after it has been encoded.
C11_NothingOfTheFailingValue ==
    (call.op = "encode" /\ ret.kind = "Err") =>
        /\ DataFails(call.self)
        /\ KeptPrefix
        /\ Written = WireUntilFailure(call.self)

\* C11 witness: in the slice [Some(2), Some(70000), Some(2)] the second size
\* failed after 00 03, 01 00 02 and the sign 01 of its Option were written
C11_Witness ==
    /\ call.op = "encode"
    /\ call.self.ty = "slice"
    /\ Len(call.self.items) >= 2
    /\ call.self.items[1].ty = "Option"
    /\ ret.kind = "Err"
    /\ Written = Be16(Len(call.self.items)) \o <<1, 0, 2, 1>>

\* the bytes a call needs room for: those of the value up to its first failure
NeededBytes(v) == IF v.ty = "SystemTime" THEN 8 ELSE Len(WireUntilFailure(v))

\* C12: exceeding the buffer's capacity is never reported as an error value:
\* encoding a fixed-width numeric returns Ok whenever it returns and an
\* under-sized buffer aborts the operation, whereas every data failure
\* (narrowing overflow, borrow conflict) is returned as an Err value.
C12_CapacityIsFatal ==
    (call.op = "encode") =>
        LET room == call.pre.cap - Len(call.pre.buf)
        IN  /\ (ret.kind = "Panic") <=> (NeededBytes(call.self) > room)
            /\ (ret.kind = "Err") <=> (DataFails(call.self) /\ NeededBytes(call.self) <= room)
            /\ (ret.kind = "Err") =>
                    InnermostError(ret.err).kind
                        \in {"UsizeEncodeError", "IsizeEncodeError", "BorrowError"}
            /\ IsLeaf(call.self) /\ call.self.ty \notin {"usize", "isize"} =>
                    /\ ret.kind \in {"Ok", "Panic"}
                    /\ (ret.kind = "Ok") <=> (Len(WireUntilFailure(call.self)) <= room)

\* C12 witness: a u32 was encoded into a buffer with room for two bytes only
C12_Witness ==
    /\ call.op = "encode"
    /\ call.self.ty = "u32"
    /\ call.pre.cap - Len(call.pre.buf) = 2
    /\ ret.kind = "Panic"

\* C13: encoding a RefCell while it is mutably borrowed returns the Borrow
\* error and writes no byte; while it is not, encode writes exactly the
\* wrapped value's encoding, and a failure of the wrapped value is returned as
\* the separate Value error.
C13_RefCellBorrow ==
    (call.op = "encode" /\ call.self.ty = "RefCell") =>
        LET inner == call.self.items[1]
        IN  /\ call.self.borrowed =>
                /\ ret.kind = "Err"
                /\ ret.err.kind = "Borrow"
                /\ ret.err.error.kind = "BorrowError"
                /\ ostream = call.pre
            /\ (~call.self.borrowed /\ Encodable(inner) /\ ret.kind # "Panic") =>
                /\ ret.kind = "Ok"
                /\ KeptPrefix
                /\ Written = WireOf(inner)
            /\ (~call.self.borrowed /\ ~Encodable(inner)) =>
                /\ ret.kind = "Err"
                /\ ret.err.kind = "Value"
                /\ ret.err.error.kind = "UsizeEncodeError"
                /\ ret.err.error.value = inner.v
                /\ ostream = call.pre

\* C13 witness: a borrowed cell was refused after another cell had been written
C13_Witness ==
    /\ call.op = "encode"
    /\ call.self.ty = "RefCell"
    /\ call.self.borrowed
    /\ ret.kind = "Err"
    /\ ostream.buf = <<1, 44>>

\* the eight big-endian bytes of a small signed 64-bit number
Be64Small(n) == [i \in 1..8 |-> IF i < 8 THEN (IF n < 0 THEN 255 ELSE 0) ELSE n % 256]

\* C15: an absolute time point is written as one signed 64-bit count of
\* seconds relative to the UNIX epoch that is the nearest timestamp to the
\* time point, negative when the time point lies before the epoch and
\* non-negative at or after it, also when its sub-second part is not zero.
C15_NearestTimestamp ==
    (call.op = "encode" /\ call.self.ty = "SystemTime" /\ ret.kind = "Ok") =>
        LET nearest == call.self.sec + (IF 2 * call.self.nsec > 1000000000 THEN 1 ELSE 0)
        IN  /\ Written = Be64Small(nearest)
            /\ (call.self.sec < 0) <=> (Written[1] = 255)

\* C18: when element i is the first element of an array or slice whose
\* encode fails, the result is the collection's Item error carrying index i
\* and that element's own error; elements 0..i-1 have been written in order
\* and no element after i is encoded.
C18_ItemErrorCarriesIndex ==
    (/\ call.op = "encode"
     /\ call.self.ty \in {"array", "slice", "Vec"}
     /\ DataFails(call.self)
     /\ ret.kind # "Panic") =>
        LET items == call.self.items
            first == CHOOSE i \in 1..Len(items) :
                        DataFails(items[i]) /\ \A j \in 1..(i - 1) : ~DataFails(items[j])
            leaf == IF items[first].ty = "Option" THEN items[first].items[1] ELSE items[first]
        IN  /\ ret.kind = "Err"
            /\ ret.err.kind = "Item"
            /\ ret.err.error.kind = "ItemEncodeError"
            /\ ret.err.error.index = first - 1
            /\ ret.err.error.error.kind = "UsizeEncodeError"
            /\ ret.err.error.error.value = leaf.v
            /\ KeptPrefix
            /\ Written = (IF call.self.ty = "array" THEN <<>> ELSE Be16(Len(items)))
                         \o WireOfAll(SubSeq(items, 1, first - 1))
                         \o (IF items[first].ty = "Option" THEN <<1>> ELSE <<>>)

\* C18 witness: the second element of an array failed after the first was written
C18_Witness ==
    /\ call.op = "encode"
    /\ call.self.ty = "array"
    /\ Len(call.self.items) = 2
    /\ ret.kind = "Err"
    /\ ret.err.error.index = 1
    /\ Written = <<0, 2>>

(***************************************************************************)
(* Derived enums: src/librum-macros/src/impls/decode_enum.rs               *)
(*                                                                         *)
(* The macro is given the enum's variants (each with its fields and an     *)
(* optional explicit discriminant) and its representation, and generates   *)
(* the decode function modelled by Decode_enum.  Discriminants::new, the   *)
(* Decode implementations of the integers and the generated encode are not *)
(* among the sources and are modelled from the specification.              *)
(***************************************************************************)
\* most variants of a derived enum
MaxVariants == 2
\* longest input handed to a derived decode
MaxInput == 3

\* the representations of the model's enums
ReprSample == {"u8", "i8", "u16", "isize"}
\* the explicit discriminant literals of the model's enums
DiscLiterals == {-1, 1}
\* the field lists of the model's variants
FieldLists == {<<>>, <<"u8">>, <<"u16", "u8">>}

\* the bytes an integer type takes on the wire: sizes are narrowed to 16 bits
WireWidth(ty) == IF ty \in {"usize", "isize"} THEN 2 ELSE Width(ty)

Signed(ty) == ty \in {"i8", "i16", "i32", "i64", "isize"}

\* the values the type can hold (those of isize and usize that matter here)
InType(ty, v) ==
    CASE ty = "u8"    -> 0 <= v /\ v <= 255
      [] ty = "i8"    -> -128 <= v /\ v <= 127
      [] ty = "u16"   -> 0 <= v /\ v <= 65535
      [] ty = "i16"   -> -32768 <= v /\ v <= 32767
      [] ty = "usize" -> 0 <= v
      [] ty = "isize" -> TRUE

RECURSIVE Discriminants(_)
\* Discriminants::new: the first variant defaults to 0, each later one to the
\* previous value plus one, an explicit literal is used as it is
Discriminants(variants) ==
    IF variants = <<>> THEN <<>>
    ELSE LET n     == Len(variants)
             front == Discriminants(SubSeq(variants, 1, n - 1))
             last  == variants[n]
         IN  Append(front, IF last.explicit THEN last.value
                           ELSE IF n = 1 THEN 0 ELSE front[n - 1] + 1)

RECURSIVE FromBeBytes(_)
\* the unsigned number the bytes are the big-endian form of
FromBeBytes(bytes) ==
    IF bytes = <<>> THEN 0
    ELSE 256 * FromBeBytes(SubSeq(bytes, 1, Len(bytes) - 1)) + bytes[Len(bytes)]

RECURSIVE Pow256(_)
Pow256(k) == IF k = 0 THEN 1 ELSE 256 * Pow256(k - 1)

\* <ty as Decode>::decode for an integer type: takes its bytes, or fails with
\* the end-of-input error of the cursor
Decode_int(ty, stream) ==
    LET t == DStream_take(stream, WireWidth(ty))
    IN  IF t.result.kind = "Err"
        THEN [stream |-> t.self, result |-> t.result]
        ELSE LET u == FromBeBytes(t.result.val)
                 full == Pow256(WireWidth(ty))
             IN  [stream |-> t.self,
                  result |-> Ok(IF Signed(ty) /\ 2 * u >= full THEN u - full ELSE u)]

InvalidDiscriminant(e) == [kind |-> "InvalidDiscriminant", error |-> e]
UnassignedDiscriminant(value) == [kind |-> "UnassignedDiscriminant", value |-> value]
EnumDecodeError_Field(e) == [kind |-> "Field", error |-> e]
GenericDecodeError(e) == [kind |-> "GenericDecodeError", error |-> e]

\* Into::<Infallible>::into applied to an error: Infallible has no value, so
\* the conversion cannot return and the call aborts
IntoInfallible(e) == Panic

RECURSIVE DecodeFieldsReversed(_, _, _, _)
\* field commands that run last to first
DecodeFieldsReversed(tys, i, stream, done) ==
    IF i >= Len(tys)
    THEN [stream |-> stream, result |-> Ok(done), fieldCalls |-> i]
    ELSE LET r == Decode_int(tys[Len(tys) - i], stream)
         IN  IF r.result.kind = "Err"
             THEN [stream |-> r.stream,
                   result |-> Err(EnumDecodeError_Field(GenericDecodeError(r.result.err))),
                   fieldCalls |-> i + 1]
             ELSE DecodeFieldsReversed(tys, i + 1, r.stream, <<r.result.val>> \o done)

RECURSIVE DecodeFieldsFrom(_, _, _, _)
\* the repeated field command of a variant: Decode::decode(stream), its error
\* turned into GenericDecodeError and wrapped in Field, one field after another
DecodeFieldsFrom(tys, i, stream, done) ==
    IF i >= Len(tys)
    THEN [stream |-> stream, result |-> Ok(done), fieldCalls |-> i]
    ELSE LET r == Decode_int(tys[i + 1], stream)
         IN  IF r.result.kind = "Err"
             THEN [stream |-> r.stream,
                   result |-> Err(EnumDecodeError_Field(GenericDecodeError(r.result.err))),
                   fieldCalls |-> i + 1]
             ELSE DecodeFieldsFrom(tys, i + 1, r.stream, Append(done, r.result.val))

\* field commands in the wrong order
DecodeFields_reversed(tys, stream) == DecodeFieldsReversed(tys, 0, stream, <<>>)

\* the value expression of a variant: its fields decoded in declaration order
DecodeFields(tys, stream) == DecodeFieldsFrom(tys, 0, stream, <<>>)

\* a match whose last arm catches every other value
MatchArm_catch_all(discriminants, value) ==
    IF \E i \in 1..Len(discriminants) : discriminants[i] = value
    THEN (CHOOSE i \in 1..Len(discriminants) :
            /\ discriminants[i] = value
            /\ \A j \in 1..(i - 1) : discriminants[j] # value) - 1
    ELSE Len(discriminants) - 1

\* match discriminant { d0 => .., d1 => .., value => .. }: the index of the
\* first arm whose discriminant is the value, or -1 for the final arm
MatchArm(discriminants, value) ==
    IF \E i \in 1..Len(discriminants) : discriminants[i] = value
    THEN (CHOOSE i \in 1..Len(discriminants) :
            /\ discriminants[i] = value
            /\ \A j \in 1..(i - 1) : discriminants[j] # value) - 1
    ELSE -1

\* the decode function the macro generates for the enum
Decode_enum(enum, stream) ==
    LET discriminants == Discriminants(enum.variants)
        d == Decode_int(enum.repr, stream)
    IN  IF d.result.kind = "Err"
        THEN [stream |-> d.stream, result |-> IntoInfallible(d.result.err), fieldCalls |-> 0]
        ELSE LET arm == MatchArm(discriminants, d.result.val)
             IN  IF arm = -1
                 THEN [stream |-> d.stream,
                       result |-> Err(UnassignedDiscriminant(d.result.val)),
                       fieldCalls |-> 0]
                 ELSE LET f == DecodeFields(enum.variants[arm + 1].fields, d.stream)
                      IN  IF f.result.kind = "Ok"
                          THEN [stream |-> f.stream,
                                result |-> Ok([variant |-> arm, fields |-> f.result.val]),
                                fieldCalls |-> f.fieldCalls]
                          ELSE f

\* the encode function the macro generates for the enum: the discriminant of
\* the value's variant in the representation, then the variant's fields
Encode_enum(enum, self, stream) ==
    LET discriminants == Discriminants(enum.variants)
        tys == enum.variants[self.variant + 1].fields
        d == Encode(Val(enum.repr, discriminants[self.variant + 1]), stream)
    IN  IF d.result.kind # "Ok" THEN d
        ELSE EncodeFields([i \in 1..Len(tys) |-> Val(tys[i], self.fields[i])], 0, d.stream)

(***************************************************************************)
(* The enums the macro is applied to, their values, and the calls made.    *)
(***************************************************************************)
\* a variant: its field types, and its explicit discriminant when it has one
VariantSample ==
    {[fields |-> f, explicit |-> FALSE, value |-> 0] : f \in FieldLists}
    \cup {[fields |-> f, explicit |-> TRUE, value |-> v] : f \in FieldLists, v \in DiscLiterals}

\* an enum that compiles: its discriminants are pairwise distinct and are
\* values of its representation
Compiles(enum) ==
    LET ds == Discriminants(enum.variants)
    IN  /\ Distinct(ds)
        /\ \A i \in 1..Len(ds) : InType(enum.repr, ds[i])

EnumSample ==
    {e \in {[variants |-> vs, repr |-> r]
            : vs \in SeqsUpTo(VariantSample, MaxVariants) \ {<<>>}, r \in ReprSample}
     : Compiles(e)}

\* the values a field of the type is given
FieldValues(ty) == IF ty = "u16" THEN {1, 300} ELSE {0, 255}

\* the values of the enum: a variant (counted from 0) with its fields' values
EnumValues(enum) ==
    UNION {{[variant |-> i - 1, fields |-> fs]
            : fs \in {s \in [1..Len(enum.variants[i].fields) -> {0, 1, 255, 300}]
                      : \A k \in 1..Len(s) : s[k] \in FieldValues(enum.variants[i].fields[k])}}
           : i \in 1..Len(enum.variants)}

NoValue == [variant |-> -1, fields |-> <<>>]

\* a read cursor is constructed over input received from anywhere; a cursor
\* constructed later is in the state of one constructed first, so the model
\* constructs it first
Feed ==
    \E b \in SeqsUpTo(ByteSample, MaxInput) :
        /\ call.op = "derive"
        /\ dstream' = DStream_new(b)
        /\ ostream' = NoOStream
        /\ call' = [op |-> "new"]
        /\ ret' = Ok(Unit)
        /\ UNCHANGED <<derived, taken>>

\* a value of the enum is encoded into a fresh buffer and a read cursor is
\* constructed over the bytes written (first, for the same reason)
Transmit ==
    \E v \in EnumValues(derived) :
        LET r == Encode_enum(derived, v, OStream_new(MaxCap))
        IN  /\ call.op = "derive"
            /\ ostream' = r.stream
            /\ dstream' = DStream_new(r.stream.buf)
            /\ call' = [op |-> "transmit", self |-> v]
            /\ ret' = r.result
            /\ UNCHANGED <<derived, taken>>

\* the derived decode is called on the read cursor
DecodeEnum ==
    LET r == Decode_enum(derived, dstream)
        fresh == call.op = "transmit" /\ ret.kind = "Ok"
    IN  /\ dstream' = r.stream
        /\ call' = [op |-> "decode_enum", pre |-> dstream, fieldCalls |-> r.fieldCalls,
                    fresh |-> fresh, sent |-> IF fresh THEN call.self ELSE NoValue]
        /\ ret' = r.result
        /\ UNCHANGED <<ostream, derived, taken>>

\* the macro has generated the codec of one enum; no input has arrived yet
InitEnum ==
    /\ derived \in EnumSample
    /\ dstream = NoDStream
    /\ ostream = NoOStream
    /\ call = [op |-> "derive"]
    /\ ret = Ok(Unit)
    /\ taken = <<>>

NextEnum == Feed \/ Transmit \/ DecodeEnum

SpecEnum == InitEnum /\ [][NextEnum]_vars

(***************************************************************************)
(* Claims about the derived decode.                                        *)
(***************************************************************************)
\* the bytes of the discriminant in the input of the decode made last
RawBytes == 
    LET W == WireWidth(derived.repr)
        at == Len(call.pre.data) - call.pre.len
    IN  [i \in 1..W |-> call.pre.data[at + i]]

\* the value those bytes stand for in the enum's representation
RawDiscriminant ==
    LET W == WireWidth(derived.repr)
        u == IF W = 1 THEN RawBytes[1] ELSE 256 * RawBytes[1] + RawBytes[2]
        half == IF W = 1 THEN 128 ELSE 32768
    IN  IF Signed(derived.repr) /\ u >= half THEN u - 2 * half ELSE u

\* the input of the decode made last holds a whole discriminant
WellFormedDiscriminant ==
    call.op = "decode_enum" /\ call.pre.len >= WireWidth(derived.repr)

\* the resolved discriminants of the enum, as a set
Assigned == {Discriminants(derived.variants)[i] : i \in 1..Len(derived.variants)}

\* C7: a well-formed discriminant that equals none of the enum's resolved
\* discriminants makes the derived decode return UnassignedDiscriminant with
\* exactly that raw value; no field is decoded and only the discriminant's
\* bytes are consumed.
C7_UnassignedDiscriminant ==
    (WellFormedDiscriminant /\ RawDiscriminant \notin Assigned) =>
        /\ ret.kind = "Err"
        /\ ret.err.kind = "UnassignedDiscriminant"
        /\ ret.err.value = RawDiscriminant
        /\ call.fieldCalls = 0
        /\ dstream.data = call.pre.data
        /\ dstream.len = call.pre.len - WireWidth(derived.repr)

\* C7 witness: -1 is read for an i8 enum of two variants that does not assign
\* it, with input left after the discriminant
C7_Witness ==
    /\ call.op = "decode_enum"
    /\ derived.repr = "i8"
    /\ Len(derived.variants) = 2
    /\ ret.kind = "Err"
    /\ ret.err.kind = "UnassignedDiscriminant"
    /\ ret.err.value = -1
    /\ dstream.len = 2

\* C8: decoding the bytes obtained by encoding a value of variant i (its
\* resolved discriminant in the representation, then its fields in
\* declaration order) selects variant i, decodes exactly the fields variant i
\* declares, in declaration order, and yields the original value.
C8_EnumRoundTrip ==
    (call.op = "decode_enum" /\ call.fresh) =>
        LET v == call.sent
            tys == derived.variants[v.variant + 1].fields
            disc == Discriminants(derived.variants)[v.variant + 1]
        IN  /\ ostream.buf = WireOf(Val(IF WireWidth(derived.repr) = 1 THEN "i8" ELSE "i16", disc))
                             \o WireOfAll([k \in 1..Len(tys) |-> Val(tys[k], v.fields[k])])
            /\ call.pre.data = ostream.buf
            /\ ret.kind = "Ok"
            /\ ret.val.variant = v.variant
            /\ ret.val.fields = v.fields
            /\ call.fieldCalls = Len(tys)
            /\ dstream.len = 0

\* C8 witness: the second variant, with two fields, came back
C8_Witness ==
    /\ call.op = "decode_enum"
    /\ call.fresh
    /\ call.sent.variant = 1
    /\ call.sent.fields = <<300, 255>>
    /\ ret.kind = "Ok"
    /\ ret.val.fields = <<300, 255>>

\* C9: when decoding the discriminant itself fails (the stream holds fewer
\* bytes than the representation needs), the derived decode returns an
\* InvalidDiscriminant error wrapping that failure, which is not
\* UnassignedDiscriminant, and no field is decoded.
C9_InvalidDiscriminant ==
    (call.op = "decode_enum" /\ call.pre.len < WireWidth(derived.repr)) =>
        /\ ret.kind = "Err"
        /\ ret.err.kind = "InvalidDiscriminant"
        /\ call.fieldCalls = 0

\* where the decode of the input b fails for the enum: the variant its
\* discriminant selects and the number of field decodes made, the failing one
\* being the last
FailureSite(b) ==
    LET stream == DStream_new(b)
    IN  [variant |-> MatchArm(Discriminants(derived.variants),
                              Decode_int(derived.repr, stream).result.val),
         field |-> Decode_enum(derived, stream).fieldCalls]

\* the inputs whose decode returns the error that the decode made last returned
SameFieldError ==
    {b \in SeqsUpTo(ByteSample, MaxInput) :
        LET r == Decode_enum(derived, DStream_new(b)).result
        IN  /\ r.kind = "Err"
            /\ r.err.kind = "Field"
            /\ r.err.error = ret.err.error}

\* C14: when the decode of a field of a derived enum's variant fails, the
\* error the enum's decode returns wraps the field's failure together with a
\* locator, of the field or of the variant, that identifies where in the
\* value the failure occurred: the error determines the field or the variant.
C14_FieldErrorLocatesFailure ==
    (call.op = "decode_enum" /\ ret.kind = "Err" /\ ret.err.kind = "Field") =>
        /\ ret.err.error.kind = "GenericDecodeError"
        /\ \/ \A a, b \in SameFieldError : FailureSite(a).variant = FailureSite(b).variant
           \/ \A a, b \in SameFieldError : FailureSite(a).field = FailureSite(b).field

(***************************************************************************)
(* The representation of a derived enum: src/oct-macros/src/repr/mod.rs    *)
(***************************************************************************)
\* the number of attributes an item carries
MaxAttrs == 2

\* enum Repr, each kind written as Repr::to_str writes it
ReprKinds ==
    {"u8", "i8", "u16", "i16", "u32", "i32", "u64", "i64", "u128", "i128", "usize", "isize"}

\* Option<Repr>
None == [some |-> FALSE, v |-> ""]
Some(k) == [some |-> TRUE, v |-> k]

\* an attribute: its path and the identifiers of its nested meta list
Attr(path, idents) == [path |-> path, idents |-> idents]

\* the closure given to parse_nested_meta: an identifier that names a kind
\* sets the kind, any other identifier panics
Repr_of_ident(ident) ==
    IF ident \in ReprKinds THEN Ok(Some(ident)) ELSE Panic

RECURSIVE ParseNestedMeta(_, _, _)
\* parse_nested_meta(..).unwrap() over the identifiers idents[i], idents[i+1], ...
ParseNestedMeta(idents, i, this) ==
    IF i > Len(idents) THEN Ok(this)
    ELSE LET k == Repr_of_ident(idents[i])
         IN  IF k.kind = "Panic" THEN Panic
             ELSE ParseNestedMeta(idents, i + 1, k.val)

RECURSIVE Repr_get_any_path(_, _, _)
\* the loop, were it to parse every attribute whatever its path
Repr_get_any_path(attrs, i, this) ==
    IF i > Len(attrs) THEN Ok(this)
    ELSE LET r == ParseNestedMeta(attrs[i].idents, 1, this)
         IN  IF r.kind = "Panic" THEN Panic
             ELSE Repr_get_any_path(attrs, i + 1, r.val)

RECURSIVE Repr_get_from(_, _, _)
\* the loop of Repr::get over attrs[i], attrs[i+1], ...: only the attributes
\* whose path is repr are parsed
Repr_get_from(attrs, i, this) ==
    IF i > Len(attrs) THEN Ok(this)
    ELSE IF attrs[i].path = "repr"
         THEN LET r == ParseNestedMeta(attrs[i].idents, 1, this)
              IN  IF r.kind = "Panic" THEN Panic
                  ELSE Repr_get_from(attrs, i + 1, r.val)
         ELSE Repr_get_from(attrs, i + 1, this)

\* Repr::get
Repr_get(attrs) == Repr_get_from(attrs, 1, None)

\* <Repr as Default>::default
Repr_default == "isize"

\* the representation the derive uses: Repr::get's, or the default
UnwrapOrDefault(this) == IF this.some THEN this.v ELSE Repr_default

\* the attributes of the enums the derive is applied to
AttrSample ==
    {Attr("repr", <<k>>) : k \in ReprKinds}
    \cup {Attr("repr", <<"C">>), Attr("repr", <<"C", "u8">>), Attr("repr", <<>>),
          Attr("derive", <<"Encode">>), Attr("doc", <<>>)}

\* the derive is applied to an enum carrying some attributes
InitRepr ==
    /\ derived \in {[attrs |-> a] : a \in SeqsUpTo(AttrSample, MaxAttrs)}
    /\ dstream = NoDStream
    /\ ostream = NoOStream
    /\ call = [op |-> "derive"]
    /\ ret = Ok(Unit)
    /\ taken = <<>>

\* the derive asks for the representation the attributes name
GetRepr ==
    /\ call.op = "derive"
    /\ call' = [op |-> "get"]
    /\ ret' = Repr_get(derived.attrs)
    /\ UNCHANGED <<dstream, ostream, derived, taken>>

\* and falls back on the default when they name none
ResolveRepr ==
    /\ call.op = "get"
    /\ ret.kind = "Ok"
    /\ call' = [op |-> "unwrap_or_default"]
    /\ ret' = Ok(UnwrapOrDefault(ret.val))
    /\ UNCHANGED <<dstream, ostream, derived, taken>>

NextRepr == GetRepr \/ ResolveRepr

SpecRepr == InitRepr /\ [][NextRepr]_vars

\* the identifiers the repr attributes of the enum name, in order
RECURSIVE NamedFrom(_, _)
NamedFrom(attrs, i) ==
    IF i > Len(attrs) THEN <<>>
    ELSE (IF attrs[i].path = "repr" THEN attrs[i].idents ELSE <<>>) \o NamedFrom(attrs, i + 1)

Named == NamedFrom(derived.attrs, 1)

\* the enum's attributes without those other than repr
IsRepr(attr) == attr.path = "repr"
ReprAttrsOnly == SelectSeq(derived.attrs, IsRepr)

\* C16: the representation of a derived enum is the kind its repr annotation
\* names when it names one of the twelve integer kinds, it is isize when the
\* enum carries no repr annotation, and the attributes other than repr never
\* change the result.
C16_ReprNamedOrIsize ==
    /\ (call.op = "get") =>
          /\ ret = Repr_get(ReprAttrsOnly)
          /\ (Named = <<>>) => ret = Ok(None)
    /\ (call.op = "unwrap_or_default") =>
          /\ \A k \in ReprKinds :
                (Named # <<>> /\ \A i \in 1..Len(Named) : Named[i] = k) => ret = Ok(k)
          /\ (ReprAttrsOnly = <<>>) => ret = Ok("isize")
          /\ (Named # <<>>) => ret = Ok(Named[Len(Named)])

\* C16 witness: #[derive(Encode)] #[repr(i16)] resolved to i16
C16_Witness ==
    /\ call.op = "unwrap_or_default"
    /\ Len(derived.attrs) = 2
    /\ derived.attrs[1].path = "derive"
    /\ derived.attrs[2] = Attr("repr", <<"i16">>)
    /\ ret = Ok("i16")

====
